---- MODULE Spec2Model ----
(***************************************************************************)
(* A model of main.py: the FastAPI service with POST /generate (required   *)
(* prompt, optional model, optional image), POST /upload (required image)  *)
(* and the handler installed for RequestValidationError.                   *)
(*                                                                         *)
(* Text is a sequence of characters over a small alphabet, so that         *)
(* str.strip, str.split, str.startswith and Python truthiness are computed *)
(* as the code computes them:                                              *)
(*   "x" "m"   ordinary characters                                         *)
(*   " "       a space                                                     *)
(*   "-"       a dash                                                      *)
(*   "CRLF"    the two characters \r\n                                     *)
(*   "b"       the character the client's boundary token is made of        *)
(*   "CD:<n>"  the text  Content-Disposition: form-data; name="<n>"        *)
(*   "FNAME"   the text  ; filename="..."   of a file part's header        *)
(*   "CTYPE"   the text  Content-Type: ...  of a file part's header        *)
(***************************************************************************)
EXTENDS Integers, Sequences, FiniteSets, TLC

\* ------------------------------------------------------------------ bounds

\* Request slots of the service.
NReq == 2
\* Requests the service accepts in one behaviour.
MaxServed == 1
\* Parts in the first candidate of one backend answer.
MaxParts == 2
\* Requests the service accepts in one behaviour of SpecConcurrent, where
\* they are in flight together.
MaxInFlight == 2

\* ------------------------------------------------------------ configuration

MAX_FILE_SIZE == 10485760
MODEL_NAME == <<"gemini-2.5-flash-image-preview">>
ALLOWED_IMAGE_TYPES == {"image/jpeg", "image/png", "image/webp", "image/gif"}

\* ------------------------------------------------------------------- text

WS == {" ", "CRLF"}

RECURSIVE LStrip(_)
LStrip(s) == IF s # <<>> /\ Head(s) \in WS THEN LStrip(Tail(s)) ELSE s

RECURSIVE RStrip(_)
RStrip(s) ==
    IF s # <<>> /\ s[Len(s)] \in WS THEN RStrip(SubSeq(s, 1, Len(s) - 1)) ELSE s

\* str.strip()
Strip(s) == RStrip(LStrip(s))

\* str.startswith(p)
StartsWith(s, p) == Len(p) <= Len(s) /\ SubSeq(s, 1, Len(p)) = p

\* str.find(sep, i), 1-based; 0 when sep does not occur at or after i.
RECURSIVE Find(_, _, _)
Find(s, sep, i) ==
    IF i + Len(sep) - 1 > Len(s) THEN 0
    ELSE IF SubSeq(s, i, i + Len(sep) - 1) = sep THEN i
    ELSE Find(s, sep, i + 1)

\* sep in s
Contains(s, sep) == Find(s, sep, 1) # 0

\* str.split(sep) for a non-empty sep: the list of the pieces, left to right.
RECURSIVE Split(_, _)
Split(s, sep) ==
    LET k == Find(s, sep, 1) IN
    IF k = 0 THEN <<s>>
    ELSE <<SubSeq(s, 1, k - 1)>> \o Split(SubSeq(s, k + Len(sep), Len(s)), sep)

\* '\r\n'.join(lines)
RECURSIVE Join(_)
Join(lines) ==
    IF lines = <<>> THEN <<>>
    ELSE IF Len(lines) = 1 THEN lines[1]
    ELSE lines[1] \o <<"CRLF">> \o Join(Tail(lines))

\* Python truthiness of a str: the empty string is falsy.
Truthy(s) == s # <<>>

\* ------------------------------------------------------- the request's fields

FieldNames == {"prompt", "model", "image"}

\* What a form parser hands over for one field name: nothing (NONE), a str
\* (TEXT) or an UploadFile (FILE) with its filename, content_type, size (the
\* number of bytes of the part, which is also the length of file.read()),
\* whether PIL can decode the bytes, and the pixel mode of the decoded image.
NoField ==
    [kind |-> "NONE", text |-> <<>>, filename |-> <<>>, content_type |-> "",
     size |-> 0, decodable |-> FALSE, mode |-> ""]

TextField(t) == [NoField EXCEPT !.kind = "TEXT", !.text = t]

FileField(fn, ct, sz, dec, md) ==
    [kind |-> "FILE", text |-> <<>>, filename |-> fn, content_type |-> ct,
     size |-> sz, decodable |-> dec, mode |-> md]

\* -------------------------------------------- the client's multipart encoding

Boundary == <<"b">>
Delimiter == <<"-", "-">> \o Boundary

CDToken(name) ==
    CASE name = "prompt" -> "CD:prompt"
      [] name = "model" -> "CD:model"
      [] OTHER -> "CD:image"

CDTokens == {"CD:prompt", "CD:model", "CD:image"}

NameOfToken(tok) ==
    CASE tok = "CD:prompt" -> "prompt"
      [] tok = "CD:model" -> "model"
      [] OTHER -> "image"

\* One part as a client writes it: the delimiter line, the headers, a blank
\* line, the value, CRLF. A file part carries filename and Content-Type in its
\* headers and its bytes (one character stands for them) as the value.
EncodePart(name, f) ==
    IF f.kind = "NONE" THEN <<>>
    ELSE Delimiter \o <<"CRLF", CDToken(name)>>
         \o (IF f.kind = "FILE" THEN <<"FNAME", "CRLF", "CTYPE">> ELSE <<>>)
         \o <<"CRLF", "CRLF">>
         \o (IF f.kind = "TEXT" THEN f.text
             ELSE IF f.size > 0 THEN <<"x">> ELSE <<>>)
         \o <<"CRLF">>

\* The body of a multipart request. A "garbage" body is not multipart at all;
\* a "nosep" body is multipart whose prompt part lacks the blank line between
\* its headers and its value.
RawBody(req) ==
    CASE req.body = "garbage" -> <<"x", "CRLF", "x">>
      [] req.body = "nosep" ->
            Delimiter \o <<"CRLF", "CD:prompt", "CRLF">> \o req.prompt.text
            \o <<"CRLF">> \o Delimiter \o <<"-", "-", "CRLF">>
      [] OTHER ->
            EncodePart("prompt", req.prompt) \o EncodePart("model", req.model)
            \o EncodePart("image", req.image)
            \o Delimiter \o <<"-", "-", "CRLF">>

\* ------------------------------------------------ generate: the manual parse

\* re.search(r'name="([^"]+)"', part): the first name attribute of the part,
\* <<>> when there is none.
RECURSIVE NameMatch(_)
NameMatch(part) ==
    IF part = <<>> THEN <<>>
    ELSE IF Head(part) \in CDTokens THEN <<NameOfToken(Head(part))>>
    ELSE NameMatch(Tail(part))

\* The backup loop of the manual parse: the lines after the first empty line,
\* up to the first line that starts with "--".
RECURSIVE ContentLines(_, _)
ContentLines(lines, found_empty_line) ==
    IF lines = <<>> THEN <<>>
    ELSE IF found_empty_line
         THEN IF StartsWith(Head(lines), <<"-", "-">>) THEN <<>>
              ELSE <<Head(lines)>> \o ContentLines(Tail(lines), TRUE)
         ELSE ContentLines(Tail(lines), Head(lines) = <<>>)

\* field_value of one segment of the body.
FieldValue(part) ==
    IF Contains(part, <<"CRLF", "CRLF">>)
    THEN LET k == Find(part, <<"CRLF", "CRLF">>, 1)
             content_part == SubSeq(part, k + 2, Len(part))
         IN  Strip(Split(content_part, <<"CRLF", "-", "-">>)[1])
    ELSE Strip(Join(ContentLines(Split(part, <<"CRLF">>), FALSE)))

\* The loop over the segments: fields[field_name] = field_value, a later
\* segment of the same name replacing an earlier one.
RECURSIVE ParseParts(_, _)
ParseParts(parts, fields) ==
    IF parts = <<>> THEN fields
    ELSE LET part == Head(parts)
             m == NameMatch(part)
         IN  IF (\E i \in 1..Len(part) : part[i] \in CDTokens) /\ m # <<>>
             THEN ParseParts(Tail(parts),
                             [fields EXCEPT ![m[1]] = TextField(FieldValue(part))])
             ELSE ParseParts(Tail(parts), fields)

\* The fields the manual parse recovers from a body that starts with "--".
ManualFields(body_str) ==
    LET first_line == Split(body_str, <<"CRLF">>)[1]
        boundary == SubSeq(first_line, 3, Len(first_line))
        parts == Split(body_str, <<"-", "-">> \o boundary)
    IN  ParseParts(parts, [n \in FieldNames |-> NoField])

\* ------------------------------------------------------------ the requests

\* The Content-Type headers the clients send.
CT_BOUNDARY == "multipart/form-data; boundary=b"
CT_NOBOUNDARY == "multipart/form-data"
CT_URLENCODED == "application/x-www-form-urlencoded"

\* content_type.startswith("multipart/form-data")
StartsWithMultipart(content_type) == content_type \in {CT_BOUNDARY, CT_NOBOUNDARY}

\* Mutant of HasBoundaryParam: the parameter is never found.
HasBoundaryParamNever(content_type) == FALSE

\* "boundary=" in content_type
HasBoundaryParam(content_type) == content_type = CT_BOUNDARY

PromptTexts ==
    {<<>>, <<" ">>, <<"x">>, <<" ", "x">>, <<"x", "CRLF", "-", "-", "x">>}

ModelTexts == {<<>>, <<"m">>, <<" ">>}

FileSizes == {0, 1, MAX_FILE_SIZE, MAX_FILE_SIZE + 1}

\* File parts: the "no selection" parts of upload widgets (blank filename), a
\* named file over every declared type, size and decodability, and decodable
\* images under other names and pixel modes.
FileFields ==
    {FileField(<<>>, "application/octet-stream", 0, FALSE, ""),
     FileField(<<" ">>, "image/png", 1, TRUE, "RGB")}
    \cup {FileField(<<"a", ".png">>, ct, 0, FALSE, "") :
            ct \in {"", "image/png", "text/plain"}}
    \cup {FileField(<<"a", ".png">>, ct, sz, dec, IF dec THEN "RGB" ELSE "") :
            ct \in {"", "image/png", "text/plain"}, sz \in FileSizes \ {0},
            dec \in BOOLEAN}
    \cup {FileField(fn, "image/jpeg", 1, TRUE, md) :
            fn \in {<<"a", ".jpg">>, <<"a">>, <<"a", ".exe">>},
            md \in {"RGB", "RGBA", "P"}}
    \cup {FileField(<<"a", ".png">>, "image/png", 1, TRUE, md) : md \in {"LA", "L"}}
    \cup {FileField(<<"c", ".bmp">>, "image/png", 1, TRUE, "RGB")}

PromptFields == {NoField} \cup {TextField(t) : t \in PromptTexts}
ModelFields == {NoField} \cup {TextField(t) : t \in ModelTexts}
ImageFields == {NoField, TextField(<<>>), TextField(<<"x">>)} \cup FileFields

\* val_err: the RequestValidationError the framework's strict parse raised
\* before the route ran: "none", "image" (an error whose loc is
\* ("body", "image")) or "other" (errors at other locations only).
MakeRequest(route, ct, body, ve, p, m, i) ==
    [route |-> route, content_type |-> ct, body |-> body, val_err |-> ve,
     prompt |-> p, model |-> m, image |-> i]

GenerateRequests ==
    \* well-formed multipart, with and without the boundary parameter
    {MakeRequest("/generate", ct, "ok", "none", p, m, i) :
        ct \in {CT_BOUNDARY, CT_NOBOUNDARY},
        p \in PromptFields, m \in ModelFields, i \in ImageFields}
    \* bodies that are not multipart, or lack the blank line
    \cup {MakeRequest("/generate", ct, "garbage", "none", NoField, NoField, NoField) :
            ct \in {CT_BOUNDARY, CT_NOBOUNDARY}}
    \cup {MakeRequest("/generate", CT_NOBOUNDARY, "nosep", "none", p, NoField, NoField) :
            p \in PromptFields \ {NoField}}
    \* urlencoded forms carry text only
    \cup {MakeRequest("/generate", CT_URLENCODED, "ok", "none", p, m, i) :
            p \in PromptFields, m \in ModelFields,
            i \in {NoField, TextField(<<>>), TextField(<<"x">>)}}
    \* the strict parse raised a validation error
    \cup {MakeRequest("/generate", CT_BOUNDARY, "ok", ve, p, m, i) :
            ve \in {"image", "other"},
            p \in PromptFields, m \in {NoField, TextField(<<"m">>)},
            i \in ImageFields}

\* /upload declares image: UploadFile = File(...): the strict parse raises a
\* validation error at ("body", "image") unless the field is a file part.
UploadRequests ==
    {MakeRequest("/upload", CT_BOUNDARY, "ok",
                 IF i.kind = "FILE" THEN "none" ELSE "image",
                 NoField, NoField, i) : i \in ImageFields}

Requests == GenerateRequests \cup UploadRequests

NoRequest == MakeRequest("", "", "", "", NoField, NoField, NoField)

\* request.form(): the fields the framework's form parser returns.
Form(req) == [prompt |-> req.prompt, model |-> req.model, image |-> req.image]

\* request.form() raises on a multipart body it cannot split.
FormRaises(req) == req.content_type = CT_BOUNDARY /\ req.body = "garbage"

\* -------------------------------------------------------------- responses

\* The messages, in English; the code's texts are noted beside each.
MSG_MISSING_PROMPT == <<"missing required parameter: prompt">>
MSG_BAD_MULTIPART == <<"cannot parse the request: malformed multipart/form-data">>
PFX_REQUEST_FAILED == "request processing failed: "
PFX_IMAGE_FAILED == "image processing failed: "
PFX_BACKEND_FAILED == "AI generation failed: "
PFX_OUTPUT_FAILED == "parsing the AI output failed: "
PFX_UPLOAD_FAILED == "upload failed: "
MSG_TEXT_ONLY_OK == <<"text-only generation", " succeeded">>
MSG_MULTIMODAL_OK == <<"image-and-text generation", " succeeded">>
MSG_UPLOAD_OK == <<"image uploaded">>

NoResponse ==
    [status |-> 0, shape |-> "", success |-> FALSE, message |-> <<>>,
     model |-> <<>>, prompt |-> <<>>, texts |-> <<>>, image_urls |-> <<>>,
     filename |-> <<>>, image_url |-> <<>>]

\* JSONResponse(status_code=200, content=GenerateResponse(...).dict())
GenerateResponse(success, model, prompt, texts, image_urls, message) ==
    [NoResponse EXCEPT !.status = 200, !.shape = "generate",
                       !.success = success, !.model = model, !.prompt = prompt,
                       !.texts = texts, !.image_urls = image_urls,
                       !.message = message]

\* The failure bodies generate and the validation handler build by hand.
FailureResponse(message) ==
    GenerateResponse(FALSE, MODEL_NAME, <<>>, <<>>, <<>>, message)

\* Mutant of UploadResponse: the URL lacks the base URL.
UploadResponseRelative(success, message, image_url, filename) ==
    [NoResponse EXCEPT !.status = 200, !.shape = "upload", !.success = success,
                       !.message = message,
                       !.image_url = IF image_url = <<>> THEN <<>> ELSE Tail(image_url),
                       !.filename = filename]

UploadResponse(success, message, image_url, filename) ==
    [NoResponse EXCEPT !.status = 200, !.shape = "upload", !.success = success,
                       !.message = message, !.image_url = image_url,
                       !.filename = filename]

\* JSONResponse(status_code=422, content={"detail": ...})
ValidationErrorResponse == [NoResponse EXCEPT !.status = 422, !.shape = "detail"]

\* ------------------------------------------------------------ the utilities

\* Mutant of HasFilename: the filename is not stripped.
HasFilenameUnstripped(filename) == Truthy(filename)

\* x.filename and x.filename.strip(): the test the code repeats wherever it
\* looks at an upload.
HasFilename(filename) == Truthy(filename) /\ Truthy(Strip(filename))

\* is_valid_upload_file(image)
is_valid_upload_file(image) ==
    /\ image.kind # "NONE"
    /\ image.kind # "TEXT"
    /\ HasFilename(image.filename)

\* not upload or not hasattr(upload, 'filename') or not upload.filename
\* or not upload.filename.strip()
BlankUpload(upload) == upload.kind # "FILE" \/ ~HasFilename(upload.filename)

NoError == [raised |-> FALSE, status |-> 0, detail |-> ""]
HTTPException(status, detail) == [raised |-> TRUE, status |-> status, detail |-> detail]

\* str(e) of an HTTPException
ErrorText(e) ==
    (CASE e.status = 400 -> "400: " [] e.status = 413 -> "413: "
       [] e.status = 500 -> "500: " [] OTHER -> "") \o e.detail

\* Mutant of validate_image_file: a file of exactly the maximum is too large.
validate_image_file_ge(upload) ==
    IF BlankUpload(upload) THEN NoError
    ELSE IF upload.size # 0 /\ upload.size >= MAX_FILE_SIZE
         THEN HTTPException(413, "File too large. Maximum size is 10MB")
    ELSE IF upload.content_type # "" /\ upload.content_type \notin ALLOWED_IMAGE_TYPES
         THEN HTTPException(400, "Invalid file type")
    ELSE NoError

\* Mutant of validate_image_file: the declared type is not looked at.
validate_image_file_any_type(upload) ==
    IF BlankUpload(upload) THEN NoError
    ELSE IF upload.size # 0 /\ upload.size > MAX_FILE_SIZE
         THEN HTTPException(413, "File too large. Maximum size is 10MB")
    ELSE NoError

\* validate_image_file(upload): the exception it raises, NoError when none.
validate_image_file(upload) ==
    IF BlankUpload(upload) THEN NoError
    ELSE IF upload.size # 0 /\ upload.size > MAX_FILE_SIZE
         THEN HTTPException(413, "File too large. Maximum size is 10MB")
    ELSE IF upload.content_type # "" /\ upload.content_type \notin ALLOWED_IMAGE_TYPES
         THEN HTTPException(400, "Invalid file type")
    ELSE NoError

\* Mutant of pil_from_upload: the empty content is not checked.
pil_from_upload_no_empty_check(upload) ==
    IF BlankUpload(upload) THEN HTTPException(400, "No valid image file provided")
    ELSE IF validate_image_file(upload).raised THEN validate_image_file(upload)
    ELSE IF upload.size > MAX_FILE_SIZE
         THEN HTTPException(413, "File too large. Maximum size is 10MB")
    ELSE IF ~upload.decodable THEN HTTPException(400, "Invalid image file")
    ELSE NoError

\* pil_from_upload(upload): the exception it raises, NoError when it returns
\* the decoded image (whose mode is upload.mode).
pil_from_upload(upload) ==
    IF BlankUpload(upload) THEN HTTPException(400, "No valid image file provided")
    ELSE IF validate_image_file(upload).raised THEN validate_image_file(upload)
    ELSE IF upload.size = 0 THEN HTTPException(400, "Empty file provided")
    ELSE IF upload.size > MAX_FILE_SIZE
         THEN HTTPException(413, "File too large. Maximum size is 10MB")
    ELSE IF ~upload.decodable THEN HTTPException(400, "Invalid image file")
    ELSE NoError

\* Mutant of get_client: the key is not looked at.
get_client_unchecked(key) == NoError

\* get_client(): raises when GOOGLE_API_KEY is not set.
get_client(key) ==
    IF ~key THEN HTTPException(500, "GOOGLE_API_KEY not set in environment.")
    ELSE NoError

\* The extensions PIL can derive a format from (Image.registered_extensions),
\* among those of the model; ".exe" is none of them.
KnownExtensions == {".png", ".jpg", ".jpeg", ".webp", ".gif", ".bmp"}

\* os.path.splitext(filename)[1]
SplitExt(filename) ==
    IF Len(filename) >= 2 /\ filename[Len(filename)] \in KnownExtensions \cup {".exe"}
    THEN filename[Len(filename)]
    ELSE ""

\* Mutant of UploadExt: every upload is stored as .png.
UploadExtAlwaysPng(filename) == ".png"

\* save_uploaded_image: the extension of the original filename, ".png" when
\* it has none.
UploadExt(filename) ==
    LET original_filename == IF Truthy(filename) THEN filename ELSE <<"image">>
        ext == SplitExt(original_filename)
    IN  IF ext = "" THEN ".png" ELSE ext

\* The image pil_from_upload returns: its pixel mode, and its pixels, for
\* which the name of the client's file stands.
Decoded(upload) == [mode |-> upload.mode, pixels |-> upload.filename]

\* Mutant of NewToken: a counter that every request starts from one.
NewTokenShared(files) == 1

\* uuid.uuid4().hex: a token no stored file bears.
NewToken(files) == CHOOSE t \in 1..(Cardinality(files) + 1) : \A f \in files : f.token # t

\* Mutant of save_pil: the directory holds the last file written only.
save_pil_replacing(files, img, suffix, io_error) ==
    LET file == [token |-> 1, ext |-> suffix, mode |-> img.mode, pixels |-> img.pixels]
    IN  [error |-> IF io_error THEN "OSError" ELSE "", file |-> file,
         files |-> IF io_error THEN files ELSE {file}]

\* save_pil(img, suffix) on the directory `files`: an image whose mode is
\* neither RGB nor RGBA is converted to RGB; img.save fails on an extension
\* PIL knows no format for, on RGBA into JPEG, and on an I/O error (io_error).
\* Returns the exception, the file written and the directory afterwards.
save_pil(files, img, suffix, io_error) ==
    LET saved_mode == IF img.mode \notin {"RGB", "RGBA"} THEN "RGB" ELSE img.mode
        file == [token |-> NewToken(files), ext |-> suffix, mode |-> saved_mode,
                 pixels |-> img.pixels]
    IN  IF suffix \notin KnownExtensions
        THEN [error |-> "unknown file extension", file |-> file, files |-> files]
        ELSE IF suffix \in {".jpg", ".jpeg"} /\ saved_mode = "RGBA"
        THEN [error |-> "cannot write mode RGBA as JPEG", file |-> file, files |-> files]
        ELSE IF io_error
        THEN [error |-> "OSError", file |-> file, files |-> files]
        ELSE [error |-> "", file |-> file, files |-> files \cup {file}]

\* The name of a stored file and its URL under the request's base URL.
FileName(file) == <<file.token, file.ext>>

\* Mutant of StaticUrl: the URL names the token without the extension.
StaticUrlNoExt(file) == <<"http://host", "/static/", file.token, "">>

\* Mutant of StaticUrl: the URL lacks the base URL.
StaticUrlRelative(file) == <<"", "/static/">> \o FileName(file)

StaticUrl(file) == <<"http://host", "/static/">> \o FileName(file)

\* GET of a URL under the /static mount: the files of the directory whose
\* name is the path after /static/ (a set: empty for 404).
Resolve(url, dir) ==
    IF Len(url) = 4 /\ url[2] = "/static/"
    THEN {f \in dir : FileName(f) = SubSeq(url, 3, 4)}
    ELSE {}

\* ------------------------------------------------------ the generation backend

\* What client.models.generate_content does: it raises, or it returns a
\* response without candidates, or one whose first candidate holds parts: a
\* text (one of two), an inline image of some format, or inline bytes PIL
\* cannot open.
TextParts == {"text", "text2"}
PartKinds == TextParts \cup {"PNG", "JPEG", "bad"}

RECURSIVE SeqsUpTo(_, _)
SeqsUpTo(S, n) ==
    IF n = 0 THEN {<<>>}
    ELSE LET shorter == SeqsUpTo(S, n - 1) IN
         shorter \cup {Append(q, x) : q \in {t \in shorter : Len(t) = n - 1}, x \in S}

BackendOutcomes ==
    {[kind |-> "raise", parts |-> <<>>], [kind |-> "nocandidates", parts |-> <<>>]}
    \cup {[kind |-> "parts", parts |-> ps] : ps \in SeqsUpTo(PartKinds, MaxParts)}

NoOutcome == [kind |-> "", parts |-> <<>>]

\* ------------------------------------------------------------------ state

VARIABLES
    apiKey,     \* whether GOOGLE_API_KEY is set (API_KEY)
    files,      \* the files of GENERATED_DIR
    served,     \* requests accepted so far
    pc,         \* per slot: where the request's handling stands
    req,        \* per slot: the request
    path,       \* per slot: "normal", "manual", "handler" or "upload"
    parses,     \* per slot: the extractions of the fields, in order
    args,       \* per slot: the arguments of safe_generate_handler
    contents,   \* per slot: the contents prepared for the backend
    calls,      \* per slot: the backend calls made, in order
    outcome,    \* per slot: what the backend returned
    written,    \* per slot: the files this request wrote
    attempts,   \* per slot: the calls of save_pil this request made
    resp        \* per slot: the response

vars ==
    <<apiKey, files, served, pc, req, path, parses, args, contents, calls,
      outcome, written, attempts, resp>>

Reqs == 1..NReq

NoArgs == [prompt |-> <<>>, model |-> <<>>, image |-> NoField]
NoContents == [prompt |-> <<>>, image |-> NoField, ready |-> FALSE]

TypeOK ==
    /\ apiKey \in BOOLEAN
    /\ served \in Nat
    /\ pc \in [Reqs -> {"idle", "routed", "process", "backend", "parse", "done"}]
    /\ \A r \in Reqs : req[r] \in Requests \cup {NoRequest}
    /\ path \in [Reqs -> {"", "normal", "manual", "handler", "upload"}]

Init ==
    /\ apiKey \in BOOLEAN
    /\ files = {}
    /\ served = 0
    /\ pc = [r \in Reqs |-> "idle"]
    /\ req = [r \in Reqs |-> NoRequest]
    /\ path = [r \in Reqs |-> ""]
    /\ parses = [r \in Reqs |-> <<>>]
    /\ args = [r \in Reqs |-> NoArgs]
    /\ contents = [r \in Reqs |-> NoContents]
    /\ calls = [r \in Reqs |-> <<>>]
    /\ outcome = [r \in Reqs |-> NoOutcome]
    /\ written = [r \in Reqs |-> <<>>]
    /\ attempts = [r \in Reqs |-> 0]
    /\ resp = [r \in Reqs |-> NoResponse]

\* ---------------------------------------------------------------- actions

\* A request arrives and the framework routes it; the strict parse of the
\* route's declared parameters has run (val_err).
Admit(r, q) ==
    /\ req' = [req EXCEPT ![r] = q]
    /\ parses' = [parses EXCEPT
                    ![r] = IF q.route = "/upload" \/ q.val_err # "none"
                           THEN <<"strict">> ELSE <<>>]
    /\ served' = served + 1
    /\ pc' = [pc EXCEPT ![r] = "routed"]
    /\ path' = [path EXCEPT ![r] = ""]
    /\ args' = [args EXCEPT ![r] = NoArgs]
    /\ contents' = [contents EXCEPT ![r] = NoContents]
    /\ calls' = [calls EXCEPT ![r] = <<>>]
    /\ outcome' = [outcome EXCEPT ![r] = NoOutcome]
    /\ written' = [written EXCEPT ![r] = <<>>]
    /\ attempts' = [attempts EXCEPT ![r] = 0]
    /\ resp' = [resp EXCEPT ![r] = NoResponse]
    /\ UNCHANGED <<apiKey, files>>

\* One request at a time: every request the clients can send.
Arrive(r) ==
    /\ \A q \in Reqs : pc[q] = "idle"
    /\ served < MaxServed
    /\ \E q \in Requests : Admit(r, q)

\* Mutant of FieldTruthy: only the empty string is refused (prompt == ""), so
\* that a missing field passes.
FieldNotEmptyString(f) == ~(f.kind = "TEXT" /\ f.text = <<>>)

\* prompt = fields.get("prompt"); a missing field is None, which is falsy.
FieldTruthy(f) == f.kind # "NONE" /\ Truthy(f.text)

\* Mutant of ModelOrDefault: the model field is ignored.
ModelAlwaysDefault(f) == MODEL_NAME

\* model or MODEL_NAME
ModelOrDefault(f) == IF FieldTruthy(f) THEN f.text ELSE MODEL_NAME

\* Mutant of ClassifiedImage: the attachment is forced to absent.
ClassifiedImageForcedAbsent(form_data) == NoField

\* The image generate and the validation handler pass on: the field when it
\* is a valid upload, None otherwise.
ClassifiedImage(form_data) ==
    IF form_data.image.kind # "NONE" /\ is_valid_upload_file(form_data.image)
    THEN form_data.image
    ELSE NoField

\* Mutant of ManualImage: a non-empty recovered image value is rebuilt into
\* an upload and passed on.
ManualImageRebuilt(fields) ==
    IF FieldTruthy(fields.image)
    THEN FileField(<<"a", ".png">>, "image/png", 1, TRUE, "RGB")
    ELSE NoField

\* The image the manual parse passes on: None, whatever the field holds.
ManualImage(fields) == NoField

\* Mutant of NoBoundaryMarkerStep: the malformed body is answered with 400.
NoBoundaryMarkerStep400 ==
    [path |-> "manual", parses |-> <<>>, call |-> FALSE,
     resp |-> [FailureResponse(MSG_BAD_MULTIPART) EXCEPT !.status = 400],
     args |-> NoArgs]

\* The manual parse of a body that does not start with "--".
NoBoundaryMarkerStep ==
    [path |-> "manual", parses |-> <<>>, call |-> FALSE,
     resp |-> FailureResponse(MSG_BAD_MULTIPART), args |-> NoArgs]

\* Where generate(request) goes: the response it returns at once, or the
\* arguments with which it calls safe_generate_handler.
GenerateStep(q) ==
    IF StartsWithMultipart(q.content_type) /\ ~HasBoundaryParam(q.content_type)
    THEN LET body_str == RawBody(q) IN
         IF StartsWith(body_str, <<"-", "-">>)
         THEN LET fields == ManualFields(body_str) IN
              IF ~FieldTruthy(fields.prompt)
              THEN [path |-> "manual", parses |-> <<"manual">>, call |-> FALSE,
                    resp |-> FailureResponse(MSG_MISSING_PROMPT), args |-> NoArgs]
              ELSE [path |-> "manual", parses |-> <<"manual">>, call |-> TRUE,
                    resp |-> NoResponse,
                    args |-> [prompt |-> fields.prompt.text,
                              model |-> ModelOrDefault(fields.model),
                              image |-> ManualImage(fields)]]
         ELSE NoBoundaryMarkerStep
    ELSE IF FormRaises(q)
         THEN [path |-> "normal", parses |-> <<>>, call |-> FALSE,
               resp |-> FailureResponse(<<PFX_REQUEST_FAILED, "form parse error">>),
               args |-> NoArgs]
    ELSE LET form_data == Form(q) IN
         IF ~FieldTruthy(form_data.prompt)
         THEN [path |-> "normal", parses |-> <<"form">>, call |-> FALSE,
               resp |-> FailureResponse(MSG_MISSING_PROMPT), args |-> NoArgs]
         ELSE [path |-> "normal", parses |-> <<"form">>, call |-> TRUE,
               resp |-> NoResponse,
               args |-> [prompt |-> form_data.prompt.text,
                         model |-> ModelOrDefault(form_data.model),
                         image |-> ClassifiedImage(form_data)]]

\* Apply a step's result to slot r.
Take(r, step) ==
    /\ path' = [path EXCEPT ![r] = step.path]
    /\ parses' = [parses EXCEPT ![r] = parses[r] \o step.parses]
    /\ args' = [args EXCEPT ![r] = step.args]
    /\ resp' = [resp EXCEPT ![r] = step.resp]
    /\ pc' = [pc EXCEPT ![r] = IF step.call THEN "process" ELSE "done"]

\* POST /generate, up to the call of safe_generate_handler.
Generate(r) ==
    /\ pc[r] = "routed"
    /\ req[r].route = "/generate"
    /\ req[r].val_err = "none"
    /\ Take(r, GenerateStep(req[r]))
    /\ UNCHANGED <<apiKey, files, served, req, contents, calls, outcome, written,
                   attempts>>

\* Mutant of ValidationStep: every validation error is answered 422.
ValidationStepAlways422(q) ==
    [path |-> "handler", parses |-> <<"log">>, call |-> FALSE,
     resp |-> ValidationErrorResponse, args |-> NoArgs]

\* Where validation_exception_handler goes. It reads the form for its log
\* whatever the error; for an error at ("body", "image") of /generate it reads
\* the form again and processes the request, for any other it answers 422.
ValidationStep(q) ==
    IF q.route = "/generate" /\ q.val_err = "image"
    THEN LET form_data == Form(q) IN
         IF ~FieldTruthy(form_data.prompt)
         THEN [path |-> "handler", parses |-> <<"log", "form">>, call |-> FALSE,
               resp |-> FailureResponse(MSG_MISSING_PROMPT), args |-> NoArgs]
         ELSE [path |-> "handler", parses |-> <<"log", "form">>, call |-> TRUE,
               resp |-> NoResponse,
               args |-> [prompt |-> form_data.prompt.text,
                         model |-> ModelOrDefault(form_data.model),
                         image |-> ClassifiedImage(form_data)]]
    ELSE [path |-> "handler", parses |-> <<"log">>, call |-> FALSE,
          resp |-> ValidationErrorResponse, args |-> NoArgs]

\* The handler of RequestValidationError.
ValidationHandler(r) ==
    /\ pc[r] = "routed"
    /\ req[r].val_err # "none"
    /\ Take(r, ValidationStep(req[r]))
    /\ UNCHANGED <<apiKey, files, served, req, contents, calls, outcome, written,
                   attempts>>

\* Mutant of ProcessStep: an attachment that fails is left out and the
\* backend is called with the prompt alone.
ProcessStepIgnoringFailure(key, a) ==
    IF get_client(key).raised
    THEN [call |-> FALSE, contents |-> NoContents,
          resp |-> GenerateResponse(FALSE, a.model, a.prompt, <<>>, <<>>,
                                    <<PFX_REQUEST_FAILED, ErrorText(get_client(key))>>)]
    ELSE [call |-> TRUE, resp |-> NoResponse,
          contents |-> [prompt |-> a.prompt,
                        image |-> IF is_valid_upload_file(a.image)
                                     /\ ~pil_from_upload(a.image).raised
                                  THEN a.image ELSE NoField,
                        ready |-> TRUE]]

\* Mutant of ProcessStep: an attachment that fails is reported with the
\* response of a missing prompt.
ProcessStepMissingPromptMessage(key, a) ==
    IF get_client(key).raised
    THEN [call |-> FALSE, contents |-> NoContents,
          resp |-> GenerateResponse(FALSE, a.model, a.prompt, <<>>, <<>>,
                                    <<PFX_REQUEST_FAILED, ErrorText(get_client(key))>>)]
    ELSE IF is_valid_upload_file(a.image) /\ pil_from_upload(a.image).raised
    THEN [call |-> FALSE, contents |-> NoContents,
          resp |-> FailureResponse(MSG_MISSING_PROMPT)]
    ELSE [call |-> TRUE, resp |-> NoResponse,
          contents |-> [prompt |-> a.prompt,
                        image |-> IF is_valid_upload_file(a.image) THEN a.image
                                  ELSE NoField,
                        ready |-> TRUE]]

\* safe_generate_handler and _process_generate_request, up to the backend
\* call: the client, then the attachment.
ProcessStep(key, a) ==
    LET model_name == IF Truthy(a.model) THEN a.model ELSE MODEL_NAME
        image_file == IF is_valid_upload_file(a.image) THEN a.image ELSE NoField
        client == get_client(key)
        decoded == pil_from_upload(image_file)
    IN  IF client.raised
        THEN [call |-> FALSE, contents |-> NoContents,
              resp |-> GenerateResponse(FALSE, model_name, a.prompt, <<>>, <<>>,
                                        <<PFX_REQUEST_FAILED, ErrorText(client)>>)]
        ELSE IF image_file.kind = "FILE" /\ HasFilename(image_file.filename)
        THEN IF decoded.raised
             THEN [call |-> FALSE, contents |-> NoContents,
                   resp |-> GenerateResponse(FALSE, model_name, a.prompt, <<>>, <<>>,
                                             <<PFX_IMAGE_FAILED, ErrorText(decoded)>>)]
             ELSE [call |-> TRUE, resp |-> NoResponse,
                   contents |-> [prompt |-> a.prompt, image |-> image_file,
                                 ready |-> TRUE]]
        ELSE [call |-> TRUE, resp |-> NoResponse,
              contents |-> [prompt |-> a.prompt, image |-> NoField, ready |-> TRUE]]

Process(r) ==
    /\ pc[r] = "process"
    /\ LET step == ProcessStep(apiKey, args[r]) IN
          /\ contents' = [contents EXCEPT ![r] = step.contents]
          /\ resp' = [resp EXCEPT ![r] = step.resp]
          /\ pc' = [pc EXCEPT ![r] = IF step.call THEN "backend" ELSE "done"]
    /\ UNCHANGED <<apiKey, files, served, req, path, parses, args, calls,
                   outcome, written, attempts>>

\* The model name _process_generate_request works with.
ModelName(a) == IF Truthy(a.model) THEN a.model ELSE MODEL_NAME

\* Mutant of BackendErrorResponse: the partial fields are not emptied and the
\* status is that of a server error.
BackendErrorResponse500(a) ==
    [GenerateResponse(FALSE, ModelName(a), a.prompt, <<>>, <<>>,
                      <<PFX_BACKEND_FAILED, "backend error">>) EXCEPT !.status = 500]

\* The answer to an exception of generate_content.
BackendErrorResponse(a) ==
    GenerateResponse(FALSE, ModelName(a), a.prompt, <<>>, <<>>,
                     <<PFX_BACKEND_FAILED, "backend error">>)

\* Mutant of AfterBackendError: the call is made again.
AfterBackendErrorRetry == "backend"

\* Where the request stands after an exception of generate_content: the
\* failure is returned.
AfterBackendError == "done"

\* client.models.generate_content(model=model_name, contents=contents)
CallBackend(r) ==
    /\ pc[r] = "backend"
    /\ calls' = [calls EXCEPT
                   ![r] = Append(calls[r], [model |-> ModelName(args[r]),
                                            prompt |-> contents[r].prompt,
                                            image |-> contents[r].image])]
    /\ \E o \in BackendOutcomes :
          IF o.kind = "raise"
          THEN /\ resp' = [resp EXCEPT ![r] = BackendErrorResponse(args[r])]
               /\ pc' = [pc EXCEPT ![r] = AfterBackendError]
               /\ UNCHANGED outcome
          ELSE /\ outcome' = [outcome EXCEPT ![r] = o]
               /\ pc' = [pc EXCEPT ![r] = "parse"]
               /\ UNCHANGED resp
    /\ UNCHANGED <<apiKey, files, served, req, path, parses, args, contents, written,
                   attempts>>

\* Mutant of ModeMessage: the mode is always text-only.
ModeMessageTextOnly(c) == MSG_TEXT_ONLY_OK

\* mode = ... if len(contents) > 1 else ...; message = mode + " succeeded"
ModeMessage(c) == IF c.image.kind = "FILE" THEN MSG_MULTIMODAL_OK ELSE MSG_TEXT_ONLY_OK

\* str.lower() of the formats PIL reports.
Lower(format) == CASE format = "PNG" -> "png" [] format = "JPEG" -> "jpeg" [] OTHER -> format

\* The suffix a generated image is saved under.
GenSuffix(format) ==
    LET fmt == Lower(format)
        suffix == IF fmt \notin {".jpg", ".jpeg", ".png", ".webp"} THEN ".png" ELSE fmt
    IN  IF suffix \in {".jpg", ".jpeg", ".png", ".webp"} THEN suffix ELSE "." \o suffix

\* The loop over the parts of the first candidate. acc holds texts,
\* image_urls, the directory, the files written, the saves attempted and the
\* exception; the fail_at-th save meets an I/O error.
RECURSIVE WalkParts(_, _, _)
WalkParts(parts, acc, fail_at) ==
    IF parts = <<>> \/ acc.error # "" THEN acc
    ELSE LET part == Head(parts) IN
         IF part \in TextParts
         THEN WalkParts(Tail(parts), [acc EXCEPT !.texts = Append(@, part)], fail_at)
         ELSE IF part = "bad"
         THEN [acc EXCEPT !.error = "cannot identify image file"]
         ELSE LET s == save_pil(acc.files, [mode |-> "RGB", pixels |-> <<part>>],
                               GenSuffix(part), acc.saves + 1 = fail_at)
              IN  IF s.error # ""
                  THEN [acc EXCEPT !.error = s.error, !.saves = @ + 1]
                  ELSE WalkParts(Tail(parts),
                           [acc EXCEPT !.files = s.files, !.saves = @ + 1,
                                       !.written = Append(@, s.file),
                                       !.image_urls = Append(@, StaticUrl(s.file))],
                           fail_at)

\* Mutant of ParseFailureResponse: what was collected before the failure is
\* returned.
ParseFailureResponsePartial(a, acc) ==
    GenerateResponse(FALSE, ModelName(a), a.prompt, acc.texts, acc.image_urls,
                     <<PFX_OUTPUT_FAILED, acc.error>>)

\* The answer to an exception while the output is parsed.
ParseFailureResponse(a, acc) ==
    GenerateResponse(FALSE, ModelName(a), a.prompt, <<>>, <<>>,
                     <<PFX_OUTPUT_FAILED, acc.error>>)

ImageParts(parts) == Cardinality({i \in 1..Len(parts) : parts[i] \in {"PNG", "JPEG"}})

\* _process_generate_request after the backend call: the answer is parsed,
\* its images are saved, the response is built.
ParseOutput(r) ==
    /\ pc[r] = "parse"
    /\ \E fail_at \in 0..ImageParts(outcome[r].parts) :
          LET a == args[r]
              acc0 == [texts |-> <<>>, image_urls |-> <<>>, files |-> files,
                       written |-> <<>>, saves |-> 0, error |-> ""]
              acc == IF outcome[r].kind = "nocandidates"
                     THEN [acc0 EXCEPT !.error = "list index out of range"]
                     ELSE WalkParts(outcome[r].parts, acc0, fail_at)
          IN  /\ files' = acc.files
              /\ written' = [written EXCEPT ![r] = written[r] \o acc.written]
              /\ attempts' = [attempts EXCEPT ![r] = attempts[r] + acc.saves]
              /\ resp' = [resp EXCEPT
                            ![r] = IF acc.error # ""
                                   THEN ParseFailureResponse(a, acc)
                                   ELSE GenerateResponse(TRUE, ModelName(a), a.prompt,
                                            acc.texts, acc.image_urls,
                                            ModeMessage(contents[r]))]
    /\ pc' = [pc EXCEPT ![r] = "done"]
    /\ UNCHANGED <<apiKey, served, req, path, parses, args, contents, calls, outcome>>

\* Mutant of UploadFailure: the exception of the write is not caught.
UploadCrash(error) == [NoResponse EXCEPT !.status = 500, !.shape = "crash"]

\* upload_image, except Exception: the answer to a write that failed.
UploadFailure(error) == UploadResponse(FALSE, <<PFX_UPLOAD_FAILED, error>>, <<>>, <<>>)

\* POST /upload: save_uploaded_image and the response.
Upload(r) ==
    /\ pc[r] = "routed"
    /\ req[r].route = "/upload"
    /\ req[r].val_err = "none"
    /\ \E io_error \in BOOLEAN :
          LET upload == req[r].image
              ext == UploadExt(upload.filename)
              decoded == pil_from_upload(upload)
              s == save_pil(files, Decoded(upload), ext, io_error)
          IN  IF decoded.raised
              THEN /\ ~io_error
                   /\ resp' = [resp EXCEPT
                                 ![r] = UploadResponse(FALSE, <<decoded.detail>>, <<>>, <<>>)]
                   /\ UNCHANGED <<files, written, attempts>>
              ELSE IF s.error # ""
              THEN /\ resp' = [resp EXCEPT ![r] = UploadFailure(s.error)]
                   /\ attempts' = [attempts EXCEPT ![r] = attempts[r] + 1]
                   /\ UNCHANGED <<files, written>>
              ELSE /\ resp' = [resp EXCEPT
                                 ![r] = UploadResponse(TRUE, MSG_UPLOAD_OK,
                                                       StaticUrl(s.file), FileName(s.file))]
                   /\ files' = s.files
                   /\ attempts' = [attempts EXCEPT ![r] = attempts[r] + 1]
                   /\ written' = [written EXCEPT ![r] = Append(written[r], s.file)]
    /\ path' = [path EXCEPT ![r] = "upload"]
    /\ pc' = [pc EXCEPT ![r] = "done"]
    /\ UNCHANGED <<apiKey, served, req, parses, args, contents, calls, outcome>>

\* The response is sent and the slot is free again.
Finish(r) ==
    /\ pc[r] = "done"
    /\ pc' = [pc EXCEPT ![r] = "idle"]
    /\ req' = [req EXCEPT ![r] = NoRequest]
    /\ path' = [path EXCEPT ![r] = ""]
    /\ parses' = [parses EXCEPT ![r] = <<>>]
    /\ args' = [args EXCEPT ![r] = NoArgs]
    /\ contents' = [contents EXCEPT ![r] = NoContents]
    /\ calls' = [calls EXCEPT ![r] = <<>>]
    /\ outcome' = [outcome EXCEPT ![r] = NoOutcome]
    /\ written' = [written EXCEPT ![r] = <<>>]
    /\ attempts' = [attempts EXCEPT ![r] = 0]
    /\ resp' = [resp EXCEPT ![r] = NoResponse]
    /\ UNCHANGED <<apiKey, files, served>>

Next ==
    \E r \in Reqs :
        \/ Arrive(r)
        \/ Generate(r)
        \/ ValidationHandler(r)
        \/ Process(r)
        \/ CallBackend(r)
        \/ ParseOutput(r)
        \/ Upload(r)
        \/ Finish(r)

Spec == Init /\ [][Next]_vars

\* ------------------------------------------------- requests in flight together

\* The requests that store files: uploads of decodable images under several
\* names and pixel modes, and a /generate request with an attachment.
StoreRequests ==
    {MakeRequest("/upload", CT_BOUNDARY, "ok", "none", NoField, NoField, i) :
        i \in {FileField(<<"a", ".jpg">>, "image/jpeg", 1, TRUE, "RGB"),
               FileField(<<"a">>, "image/jpeg", 1, TRUE, "RGBA"),
               FileField(<<"a">>, "image/jpeg", 1, TRUE, "P"),
               FileField(<<"c", ".bmp">>, "image/png", 1, TRUE, "RGB")}}
    \cup {MakeRequest("/generate", CT_BOUNDARY, "ok", "none", TextField(<<"x">>),
                      NoField, FileField(<<"a", ".jpg">>, "image/jpeg", 1, TRUE, "RGB"))}

\* A request arrives while others are being handled: the handlers are
\* coroutines of one event loop, and several worker processes may share the
\* directory.
ArriveConcurrent(r) ==
    /\ pc[r] = "idle"
    /\ served < MaxInFlight
    /\ \E q \in StoreRequests : Admit(r, q)

NextConcurrent ==
    \E r \in Reqs :
        \/ ArriveConcurrent(r)
        \/ Generate(r)
        \/ Process(r)
        \/ CallBackend(r)
        \/ ParseOutput(r)
        \/ Upload(r)
        \/ Finish(r)

SpecConcurrent == Init /\ [][NextConcurrent]_vars

\* ------------------------------------------------------------------ claims

Generating(r) == req[r].route = "/generate" /\ pc[r] # "idle"

\* The encodings of "no attachment": the field omitted, a plain text value,
\* a file part whose filename is empty or all whitespace.
AbsentEncoding(image) ==
    \/ image.kind \in {"NONE", "TEXT"}
    \/ image.kind = "FILE" /\ \A i \in 1..Len(image.filename) : image.filename[i] \in WS

\* C1: for a /generate request whose image field is omitted, is a text value
\* or is a file part with a blank filename, no image is prepared for or
\* passed to the backend, and a successful response reports text-only mode.
C1_AbsentEncodingIsTextOnly ==
    \A r \in Reqs :
        Generating(r) /\ AbsentEncoding(req[r].image) =>
            /\ contents[r].image = NoField
            /\ \A i \in 1..Len(calls[r]) :
                  /\ calls[r][i].image = NoField
                  /\ calls[r][i].prompt = args[r].prompt
            /\ resp[r].success => resp[r].message = MSG_TEXT_ONLY_OK

\* C1 witness: a request with a whitespace filename on a decodable file part
\* was sent to the backend and answered successfully.
C1_Witness ==
    \E r \in Reqs :
        /\ Generating(r) /\ pc[r] = "done" /\ resp[r].success
        /\ req[r].image.kind = "FILE" /\ req[r].image.filename = <<" ">>
        /\ Len(calls[r]) = 1

\* C2: a /generate request without a prompt field, on the normal path and on
\* the missing-boundary path, is answered 200 with success false, with the
\* missing-prompt message whenever its body could be split into fields, and the
\* backend is never called for it.
C2_MissingPromptRejected ==
    \A r \in Reqs :
        Generating(r) /\ req[r].val_err = "none" /\ req[r].prompt.kind = "NONE" =>
            /\ calls[r] = <<>>
            /\ pc[r] \in {"routed", "done"}
            /\ pc[r] = "done" =>
                  /\ resp[r].status = 200
                  /\ ~resp[r].success
                  /\ req[r].body = "ok" => resp[r].message = MSG_MISSING_PROMPT

\* C2 witness: a missing prompt was answered on the missing-boundary path.
C2_Witness ==
    \E r \in Reqs :
        /\ Generating(r) /\ pc[r] = "done" /\ path[r] = "manual"
        /\ req[r].prompt.kind = "NONE" /\ req[r].body = "ok"
        /\ req[r].image.kind = "FILE"

\* C3: on the normal path and on the missing-boundary path, a prompt that is
\* empty after trimming is rejected with the missing-prompt failure, and in
\* every state in which the backend has been called the prompt passed to it
\* is non-empty after trimming.
C3_BackendPromptNotBlank ==
    \A r \in Reqs :
        Generating(r) /\ req[r].val_err = "none" =>
            /\ pc[r] \in {"process", "backend", "parse"} => Strip(args[r].prompt) # <<>>
            /\ \A i \in 1..Len(calls[r]) : Strip(calls[r][i].prompt) # <<>>
            /\ (req[r].body = "ok" /\ Strip(req[r].prompt.text) = <<>> /\ pc[r] = "done")
                  => ~resp[r].success /\ resp[r].message = MSG_MISSING_PROMPT

\* A body that defeats the manual parse.
DefeatsFallback(q) ==
    /\ q.content_type = CT_NOBOUNDARY
    /\ ~StartsWith(RawBody(q), <<"-", "-">>)

ErrorArose(r) ==
    \/ req[r].route = "/generate" /\
          \/ ~apiKey
          \/ calls[r] = <<>>
          \/ outcome[r].kind # "parts"
          \/ \E i \in 1..Len(outcome[r].parts) : outcome[r].parts[i] = "bad"
          \/ Len(written[r]) # ImageParts(outcome[r].parts)
    \/ req[r].route = "/upload" /\ Len(written[r]) # 1

C5_Original ==
    \A r \in Reqs :
        Generating(r) /\ req[r].val_err = "none" /\ DefeatsFallback(req[r]) =>
            /\ calls[r] = <<>>
            /\ pc[r] = "done" => resp[r].status \in 400..499

\* C5, amended: such a request is answered 200 with success false and the
\* malformed-multipart message; no field is extracted and the backend is not
\* called.
C5_NoBoundaryMarkerIs200 ==
    \A r \in Reqs :
        Generating(r) /\ req[r].val_err = "none" /\ DefeatsFallback(req[r]) =>
            /\ calls[r] = <<>>
            /\ pc[r] \in {"routed", "done"}
            /\ pc[r] = "done" =>
                  /\ resp[r].status = 200
                  /\ ~resp[r].success
                  /\ resp[r].message = MSG_BAD_MULTIPART
                  /\ parses[r] = <<>>

\* C5 witness: such a request was answered.
C5_Witness ==
    \E r \in Reqs :
        Generating(r) /\ DefeatsFallback(req[r]) /\ pc[r] = "done"

\* The header declares multipart/form-data and omits the boundary parameter.
MissingBoundary(q) == q.content_type = CT_NOBOUNDARY

\* A failure of the primary parse other than the missing boundary: the form
\* parser raised, or the strict parse raised a validation error.
OtherParseFailure(q) == FormRaises(q) \/ q.val_err # "none"

C7_FallbackDropsAttachment ==
    \A r \in Reqs :
        Generating(r) /\ path[r] = "manual" =>
            /\ args[r].image = NoField
            /\ contents[r].image = NoField
            /\ \A i \in 1..Len(calls[r]) : calls[r][i].image = NoField
            /\ resp[r].success => resp[r].message = MSG_TEXT_ONLY_OK

\* C7 witness: a missing-boundary request carrying a decodable image under a
\* proper filename was answered successfully.
C7_Witness ==
    \E r \in Reqs :
        /\ Generating(r) /\ path[r] = "manual" /\ pc[r] = "done" /\ resp[r].success
        /\ req[r].image.kind = "FILE" /\ req[r].image.decodable
        /\ req[r].image.filename = <<"a", ".png">>

\* C8: on the missing-boundary path, the prompt and the model recovered from a
\* well-formed body are the values of their parts, trimmed, a value with a
\* line starting with "--" included.
C8_RecoveredValuesExact ==
    \A r \in Reqs :
        /\ Generating(r) /\ path[r] = "manual" /\ req[r].body = "ok"
        /\ pc[r] \in {"process", "backend", "parse"}
        => /\ args[r].prompt = Strip(req[r].prompt.text)
           /\ Strip(req[r].model.text) # <<>> => args[r].model = Strip(req[r].model.text)

EmptyNamedFile(image) ==
    image.kind = "FILE" /\ ~AbsentEncoding(image) /\ image.size = 0

MSG_EMPTY_FILE == <<PFX_IMAGE_FAILED, "400: Empty file provided">>

\* C10 as stated: a /generate request with a prompt whose image is a named
\* file part without bytes fails with the empty-file reason and the backend
\* is never called for it.
C10_Original ==
    \A r \in Reqs :
        /\ Generating(r) /\ EmptyNamedFile(req[r].image)
        /\ req[r].val_err = "none" /\ Strip(req[r].prompt.text) # <<>>
        => /\ calls[r] = <<>>
           /\ pc[r] = "done" => ~resp[r].success /\ resp[r].message = MSG_EMPTY_FILE

\* C10, amended: where the form was parsed by the framework (the normal path
\* and the validation handler) such a request is answered with success false
\* and the backend is never called; the reason is the empty-file one when the
\* API key is set and the declared content type is missing or allowed, the
\* missing key and the unsupported type being reported before it.
C10_EmptyFileRejected ==
    \A r \in Reqs :
        /\ Generating(r) /\ EmptyNamedFile(req[r].image)
        /\ req[r].val_err # "other" /\ Strip(req[r].prompt.text) # <<>>
        /\ ~MissingBoundary(req[r])
        => /\ calls[r] = <<>>
           /\ pc[r] \in {"routed", "process", "done"}
           /\ pc[r] = "done" =>
                 /\ ~resp[r].success
                 /\ resp[r].status = 200
                 /\ (apiKey /\ req[r].image.content_type \in ALLOWED_IMAGE_TYPES \cup {""})
                       => resp[r].message = MSG_EMPTY_FILE
                 /\ ~apiKey => resp[r].message[1] = PFX_REQUEST_FAILED
                 /\ (apiKey /\ req[r].image.content_type \notin ALLOWED_IMAGE_TYPES \cup {""})
                       => resp[r].message = <<PFX_IMAGE_FAILED, "400: Invalid file type">>

\* C10 witness: such a request was answered with the empty-file reason.
C10_Witness ==
    \E r \in Reqs :
        /\ Generating(r) /\ EmptyNamedFile(req[r].image) /\ pc[r] = "done"
        /\ path[r] = "normal" /\ resp[r].message = MSG_EMPTY_FILE

\* A file part that counts as an attachment: its filename is not blank.
NamedFile(image) == image.kind = "FILE" /\ ~AbsentEncoding(image)

\* The request of slot r went through a form parse of the framework and has
\* a prompt, so that its attachment is looked at.
AttachmentLookedAt(r) ==
    \/ req[r].route = "/upload" /\ req[r].val_err = "none"
    \/ /\ req[r].route = "/generate" /\ req[r].val_err # "other"
       /\ ~MissingBoundary(req[r]) /\ ~FormRaises(req[r])
       /\ FieldTruthy(req[r].prompt)

TOO_LARGE == "File too large. Maximum size is 10MB"
INVALID_TYPE == "Invalid file type"

\* C11 as stated: on /upload and on /generate, a request whose attachment
\* exceeds 10 MiB is answered with success false and the too-large reason, and
\* writes no file.
C11_Original ==
    \A r \in Reqs :
        /\ pc[r] # "idle" /\ NamedFile(req[r].image)
        /\ req[r].image.size > MAX_FILE_SIZE
        /\ req[r].val_err = "none" /\ ~FormRaises(req[r])
        /\ req[r].route = "/generate" => FieldTruthy(req[r].prompt)
        => /\ written[r] = <<>>
           /\ pc[r] = "done" =>
                 /\ ~resp[r].success
                 /\ resp[r].message \in {<<TOO_LARGE>>, <<PFX_IMAGE_FAILED, "413: " \o TOO_LARGE>>}

\* C11, amended: where the framework parsed the form, an attachment of more
\* than 10 MiB makes the request end with success false, without a backend
\* call and without a file written; the reason is the too-large one on
\* /upload, and on /generate when the API key is set (the missing key is
\* reported before the attachment is looked at). An attachment of exactly
\* 10 MiB is never answered with the too-large reason.
C11_TooLargeRejected ==
    \A r \in Reqs :
        pc[r] # "idle" /\ NamedFile(req[r].image) /\ AttachmentLookedAt(r) =>
            /\ req[r].image.size > MAX_FILE_SIZE =>
                  /\ written[r] = <<>>
                  /\ calls[r] = <<>>
                  /\ pc[r] \in {"routed", "process", "done"}
                  /\ pc[r] = "done" =>
                        /\ resp[r].status = 200 /\ ~resp[r].success
                        /\ req[r].route = "/upload" => resp[r].message = <<TOO_LARGE>>
                        /\ req[r].route = "/generate" =>
                              resp[r].message =
                                 IF apiKey THEN <<PFX_IMAGE_FAILED, "413: " \o TOO_LARGE>>
                                 ELSE <<PFX_REQUEST_FAILED,
                                        "500: GOOGLE_API_KEY not set in environment.">>
            /\ req[r].image.size <= MAX_FILE_SIZE /\ pc[r] = "done" =>
                  resp[r].message \notin
                     {<<TOO_LARGE>>, <<PFX_IMAGE_FAILED, "413: " \o TOO_LARGE>>}

\* C11 witness: an upload of more than 10 MiB under a declared type that is
\* not allowed was answered with the too-large reason.
C11_Witness ==
    \E r \in Reqs :
        /\ pc[r] = "done" /\ req[r].route = "/upload"
        /\ req[r].image.size = MAX_FILE_SIZE + 1
        /\ req[r].image.content_type = "text/plain"
        /\ resp[r].message = <<TOO_LARGE>>

\* The declared type of the attachment is present and not allowed.
UnsupportedType(image) ==
    image.content_type # "" /\ image.content_type \notin ALLOWED_IMAGE_TYPES

AttachmentFails(image) ==
    \/ image.size > MAX_FILE_SIZE
    \/ UnsupportedType(image)
    \/ image.size = 0
    \/ ~image.decodable

\* C13: the attachment handed to _process_generate_request is validated and
\* decoded before the backend call: the backend is only ever called when the
\* attachment is absent or passed both stages, and a request whose
\* attachment failed them ends with success false and the image-processing
\* message, without a backend call.
C13_AttachmentBeforeBackend ==
    \A r \in Reqs :
        Generating(r) /\ args[r].image.kind = "FILE" =>
            /\ NamedFile(args[r].image)
            /\ (pc[r] \in {"backend", "parse"} \/ calls[r] # <<>>) =>
                  /\ ~AttachmentFails(args[r].image)
                  /\ contents[r].image = args[r].image
            /\ AttachmentFails(args[r].image) =>
                  /\ calls[r] = <<>>
                  /\ pc[r] \in {"process", "done"}
                  /\ (pc[r] = "done" /\ apiKey) =>
                        /\ resp[r].status = 200 /\ ~resp[r].success
                        /\ resp[r].message[1] = PFX_IMAGE_FAILED

\* C13 witness: with the API key set, a request whose attachment does not
\* decode was answered with the image-processing message.
C13_Witness ==
    \E r \in Reqs :
        /\ Generating(r) /\ pc[r] = "done" /\ apiKey
        /\ args[r].image.kind = "FILE" /\ ~args[r].image.decodable
        /\ args[r].image.size = 1 /\ args[r].image.content_type = "image/png"
        /\ resp[r].message = <<PFX_IMAGE_FAILED, "400: Invalid image file">>

\* The attachment of the request of slot r is present: a named file part, on
\* a path that does not drop it.
Present(r) == NamedFile(req[r].image) /\ ~MissingBoundary(req[r])

\* C14: whether contents holds an image when the backend is called, and the
\* mode a successful response reports, are given by the request: multimodal
\* exactly when the attachment is present, whatever the backend returned; a
\* failure response reports no mode.
C14_ModeFromRequest ==
    \A r \in Reqs :
        Generating(r) =>
            /\ pc[r] \in {"backend", "parse"} =>
                  (contents[r].image.kind = "FILE" <=> Present(r))
            /\ \A i \in 1..Len(calls[r]) :
                  (calls[r][i].image.kind = "FILE" <=> Present(r))
            /\ (pc[r] = "done" /\ resp[r].success) =>
                  resp[r].message = IF Present(r) THEN MSG_MULTIMODAL_OK
                                    ELSE MSG_TEXT_ONLY_OK
            /\ (pc[r] = "done" /\ ~resp[r].success) =>
                  resp[r].message \notin {MSG_MULTIMODAL_OK, MSG_TEXT_ONLY_OK}

\* C14 witness: a request with an attachment was answered as multimodal
\* though the backend returned no part at all.
C14_Witness ==
    \E r \in Reqs :
        /\ Generating(r) /\ pc[r] = "done" /\ resp[r].success
        /\ outcome[r].kind = "parts" /\ outcome[r].parts = <<>>
        /\ resp[r].message = MSG_MULTIMODAL_OK

\* A present, valid image attachment.
ValidImage(image) ==
    /\ NamedFile(image) /\ image.decodable
    /\ image.size \in 1..MAX_FILE_SIZE
    /\ ~UnsupportedType(image)

\* The extension save_uploaded_image is said to store a file under.
OriginalExt(image) == IF SplitExt(image.filename) = "" THEN ".png" ELSE SplitExt(image.filename)

IO_ERROR == <<PFX_UPLOAD_FAILED, "OSError">>

\* PIL can write the decoded image under the extension of its filename.
Writable(image) ==
    /\ OriginalExt(image) \in KnownExtensions
    /\ ~(OriginalExt(image) \in {".jpg", ".jpeg"} /\ image.mode = "RGBA")

\* C15 as stated, for the images PIL can write under their extension and I/O
\* errors aside: a present, valid image attachment of /upload or /generate is
\* stored exactly once before the request is finalized, under a token
\* followed by the extension of the original filename.
C15_Original ==
    \A r \in Reqs :
        /\ pc[r] = "done" /\ ValidImage(req[r].image) /\ AttachmentLookedAt(r)
        /\ Writable(req[r].image)
        /\ req[r].val_err = "none" /\ resp[r].message # IO_ERROR
        /\ req[r].route = "/generate" => apiKey
        => /\ \E f \in files :
                 /\ f.pixels = req[r].image.filename
                 /\ f.ext = OriginalExt(req[r].image)
           /\ Cardinality({f \in files : f.pixels = req[r].image.filename}) = 1

\* C15, amended: a present, valid image sent to /upload is stored at most
\* once, and exactly once exactly when the response is a success, which it is
\* when PIL can write the image under the extension of the original filename
\* and no I/O error occurs; the name is a fresh token followed by that
\* extension (.png when the filename has none) and is the one the response
\* gives. The attachment of /generate is never stored: before the backend has
\* answered the request has written nothing, and the files it writes
\* afterwards are the images the backend returned.
C15_UploadStoredOnce ==
    \A r \in Reqs :
        pc[r] # "idle" /\ req[r].val_err = "none" /\ ValidImage(req[r].image) =>
            /\ req[r].route = "/upload" =>
                  /\ Len(written[r]) <= 1
                  /\ pc[r] = "routed" => written[r] = <<>>
                  /\ pc[r] = "done" =>
                        /\ resp[r].success <=> Len(written[r]) = 1
                        /\ Writable(req[r].image) =>
                              (resp[r].success \/ resp[r].message = IO_ERROR)
                        /\ ~Writable(req[r].image) => ~resp[r].success
                  /\ \A i \in 1..Len(written[r]) :
                        /\ written[r][i] \in files
                        /\ written[r][i].token \in Nat
                        /\ written[r][i].ext = OriginalExt(req[r].image)
                        /\ written[r][i].pixels = req[r].image.filename
                        /\ resp[r].filename = FileName(written[r][i])
            /\ req[r].route = "/generate" =>
                  /\ pc[r] \in {"routed", "process", "backend", "parse"} =>
                        written[r] = <<>>
                  /\ \A i \in 1..Len(written[r]) :
                        written[r][i].pixels \in {<<"PNG">>, <<"JPEG">>}

\* C15 witness: a valid a.jpg was uploaded and stored under <token>.jpg.
C15_Witness ==
    \E r \in Reqs :
        /\ pc[r] = "done" /\ req[r].route = "/upload" /\ resp[r].success
        /\ req[r].image.filename = <<"a", ".jpg">>
        /\ Len(written[r]) = 1 /\ written[r][1].ext = ".jpg"

\* The extensions stored uploads are said to have.
CanonicalExtensions == {".png", ".jpg", ".jpeg", ".webp", ".gif"}

\* C16: every stored upload has an extension among .png .jpg .jpeg .webp
\* .gif: that of the original filename when it is one of these, .png
\* otherwise; a valid image under an unrecognized extension is stored as .png.
C16_CanonicalExtension ==
    \A r \in Reqs :
        req[r].route = "/upload" /\ pc[r] = "done" /\ ValidImage(req[r].image) =>
            /\ \A i \in 1..Len(written[r]) :
                  /\ written[r][i].ext \in CanonicalExtensions
                  /\ written[r][i].ext =
                        IF SplitExt(req[r].image.filename) \in CanonicalExtensions
                        THEN SplitExt(req[r].image.filename) ELSE ".png"
            /\ (SplitExt(req[r].image.filename) \notin CanonicalExtensions
                /\ resp[r].message # IO_ERROR)
                  => resp[r].success /\ Len(written[r]) = 1

\* The files the requests in flight wrote.
WrittenBy(r) == {written[r][i] : i \in 1..Len(written[r])}

C18_AppendOnly ==
    [][/\ files \subseteq files'
       /\ \A f \in files' \ files : \A g \in files : FileName(f) # FileName(g)
       /\ apiKey' = apiKey]_vars

\* C18 witness: the file of a finished request is still stored while a later
\* request has stored another.
C18_Witness ==
    /\ \E f \in files : \A r \in Reqs : f \notin WrittenBy(r)
    /\ \E r \in Reqs : written[r] # <<>>

\* The mode an image is stored in.
Normalized(mode) == IF mode \in {"RGB", "RGBA"} THEN mode ELSE "RGB"

C20_AlphaKept ==
    \A r \in Reqs :
        req[r].route = "/upload" =>
            \A i \in 1..Len(written[r]) :
                written[r][i].mode =
                    IF req[r].image.mode \in {"RGBA", "LA", "P"} THEN "RGBA" ELSE "RGB"

\* The backend call of the request of slot r raised.
BackendRaised(r) == calls[r] # <<>> /\ outcome[r].kind = "" /\ pc[r] # "backend"

\* C21: a request whose backend call raised is answered 200 with success
\* false, empty texts and image_urls and a message that carries the error;
\* it wrote nothing and attempted no write.
C21_BackendErrorIsFailure ==
    \A r \in Reqs :
        Generating(r) /\ BackendRaised(r) =>
            /\ pc[r] = "done"
            /\ resp[r].status = 200 /\ resp[r].shape = "generate"
            /\ ~resp[r].success
            /\ resp[r].texts = <<>> /\ resp[r].image_urls = <<>>
            /\ resp[r].message = <<PFX_BACKEND_FAILED, "backend error">>
            /\ resp[r].prompt = args[r].prompt
            /\ written[r] = <<>> /\ attempts[r] = 0

\* C21 witness: the backend raised for a request that carried an attachment.
C21_Witness ==
    \E r \in Reqs :
        /\ Generating(r) /\ BackendRaised(r) /\ pc[r] = "done"
        /\ contents[r].image.kind = "FILE"

\* A write of the request of slot r failed.
WriteFailed(r) == attempts[r] > Len(written[r])

\* C22: within one request the backend is called at most once, and a call
\* that raised ends the request; save_pil is called at most once for the
\* upload or for each image part of the output, and a write that failed is
\* the last one the request attempted.
C22_NoRetries ==
    \A r \in Reqs :
        /\ Len(calls[r]) <= 1
        /\ BackendRaised(r) => pc[r] = "done"
        /\ attempts[r] <= Len(written[r]) + 1
        /\ req[r].route = "/upload" => attempts[r] <= 1
        /\ req[r].route = "/generate" => attempts[r] <= ImageParts(outcome[r].parts)
        /\ req[r].route = "" => attempts[r] = 0
        /\ WriteFailed(r) => pc[r] = "done" /\ ~resp[r].success

\* C22 witness: the second write of a /generate request failed after the
\* first had succeeded.
C22_Witness ==
    \E r \in Reqs :
        /\ Generating(r) /\ pc[r] = "done"
        /\ attempts[r] = 2 /\ Len(written[r]) = 1 /\ Len(calls[r]) = 1

\* The prompt the parser of the request's path hands over is missing or empty.
PromptMissing(r) ==
    IF MissingBoundary(req[r]) /\ req[r].val_err = "none"
    THEN ~FieldTruthy(ManualFields(RawBody(req[r])).prompt)
    ELSE ~FieldTruthy(req[r].prompt)

\* C23: the missing-prompt response is given to requests without a prompt
\* only and the image-processing failure to requests with a prompt whose
\* attachment failed only, so no response is both; a request without a
\* prompt gets the missing-prompt response whatever its attachment is; no
\* /upload response is the missing-prompt one.
C23_MissingPromptVsBadAttachment ==
    \A r \in Reqs :
        pc[r] = "done" =>
            /\ req[r].route = "/upload" => resp[r].message # MSG_MISSING_PROMPT
            /\ req[r].route = "/generate" =>
                  /\ resp[r].message = MSG_MISSING_PROMPT =>
                        PromptMissing(r) /\ calls[r] = <<>>
                  /\ (resp[r].message # <<>> /\ resp[r].message[1] = PFX_IMAGE_FAILED) =>
                        /\ ~PromptMissing(r)
                        /\ NamedFile(args[r].image) /\ AttachmentFails(args[r].image)
                  /\ (PromptMissing(r) /\ req[r].val_err # "other"
                      /\ ~FormRaises(req[r]) /\ ~DefeatsFallback(req[r]))
                        => resp[r] = FailureResponse(MSG_MISSING_PROMPT)

\* C23 witness: a request without a prompt and with an empty named file was
\* answered with the missing-prompt response.
C23_Witness ==
    \E r \in Reqs :
        /\ Generating(r) /\ pc[r] = "done" /\ path[r] = "normal"
        /\ req[r].prompt.kind = "NONE" /\ EmptyNamedFile(req[r].image)
        /\ resp[r].message = MSG_MISSING_PROMPT

\* C24: a request whose write failed is answered 200 with success false and
\* a message, having attempted nothing after the failure; its slot can be
\* freed, every other request in flight can take its next step, and a free
\* slot accepts the next request.
C24_WriteFailureIsLocal ==
    \A r \in Reqs :
        WriteFailed(r) =>
            /\ pc[r] = "done"
            /\ resp[r].status = 200 /\ resp[r].shape \in {"generate", "upload"}
            /\ ~resp[r].success /\ resp[r].message # <<>>
            /\ resp[r].image_urls = <<>> /\ resp[r].filename = <<>>
            /\ attempts[r] = Len(written[r]) + 1
            /\ ENABLED Finish(r)
            /\ \A q \in Reqs \ {r} :
                  /\ (pc[q] = "idle" /\ served < MaxInFlight) => ENABLED ArriveConcurrent(q)
                  /\ pc[q] \in {"routed", "process", "backend", "parse"} =>
                        ENABLED (Generate(q) \/ Process(q) \/ CallBackend(q)
                                 \/ ParseOutput(q) \/ Upload(q))

\* C24 witness: the write of one upload failed and another request, in
\* flight with it, stored its file and was answered with success.
C24_Witness ==
    \E r, q \in Reqs :
        /\ r # q /\ WriteFailed(r) /\ req[r].route = "/upload"
        /\ resp[r].message = IO_ERROR
        /\ pc[q] = "done" /\ resp[q].success /\ written[q] # <<>>

\* C25: a generated image is stored under the suffix of its decoded format:
\* .jpeg for a JPEG, .png for a PNG.
C25_SuffixFromFormat ==
    \A r \in Reqs :
        Generating(r) =>
            \A i \in 1..Len(written[r]) :
                written[r][i].ext =
                    IF written[r][i].pixels = <<"JPEG">> THEN ".jpeg" ELSE ".png"

\* The value of the model field on the path of the request of slot r: as the
\* form parser returns it, trimmed on the missing-boundary path; and the model
\* it stands for.
ModelFieldValue(r) ==
    IF MissingBoundary(req[r]) /\ req[r].val_err = "none"
    THEN Strip(req[r].model.text) ELSE req[r].model.text

ExpectedModel(r) == IF ModelFieldValue(r) # <<>> THEN ModelFieldValue(r) ELSE MODEL_NAME

\* C26 as stated: on every path the model passed to the backend and echoed
\* in the response is the value of the model field, the default when the
\* field is omitted or empty.
C26_Original ==
    \A r \in Reqs :
        Generating(r) /\ req[r].val_err # "other" /\ req[r].body = "ok" =>
            /\ \A i \in 1..Len(calls[r]) : calls[r][i].model = ExpectedModel(r)
            /\ pc[r] = "done" => resp[r].model = ExpectedModel(r)

\* C26, amended: on every path, for a request that passed the prompt test,
\* the model handed to the processing, passed to the backend and echoed in
\* the response is the value of the model field (trimmed on the
\* missing-boundary path), the default when that is empty; the responses
\* built before the processing (missing prompt, malformed body, form parser
\* exception) echo the default model whatever the field holds.
C26_ModelOverride ==
    \A r \in Reqs :
        Generating(r) /\ req[r].val_err # "other" /\ req[r].body = "ok" =>
            /\ \A i \in 1..Len(calls[r]) : calls[r][i].model = ExpectedModel(r)
            /\ pc[r] \in {"process", "backend", "parse"} =>
                  ModelName(args[r]) = ExpectedModel(r)
            /\ (pc[r] = "done" /\ args[r] # NoArgs) => resp[r].model = ExpectedModel(r)
            /\ (pc[r] = "done" /\ args[r] = NoArgs) => resp[r].model = MODEL_NAME

\* C26 witness: on the missing-boundary path a request naming model m was
\* answered with success under that model.
C26_Witness ==
    \E r \in Reqs :
        /\ Generating(r) /\ path[r] = "manual" /\ pc[r] = "done" /\ resp[r].success
        /\ req[r].model.text = <<"m">>
        /\ Len(calls[r]) = 1 /\ calls[r][1].model = <<"m">> /\ resp[r].model = <<"m">>

\* The parts of an output that are texts, and those that are images.
TextsOf(parts) == LET IsText(p) == p \in TextParts IN SelectSeq(parts, IsText)
ImagesOf(parts) == LET IsImage(p) == p \in {"PNG", "JPEG"} IN SelectSeq(parts, IsImage)

\* C27: in a successful /generate response texts holds the text parts and
\* image_urls one URL per image part of the output, both in the order of the
\* parts; the i-th URL is the base URL, /static/ and the name of the i-th
\* file the request wrote, which holds the i-th image and is stored; the
\* URLs are pairwise distinct.
C27_OutputInOrder ==
    \A r \in Reqs :
        Generating(r) /\ pc[r] = "done" /\ resp[r].success =>
            /\ outcome[r].kind = "parts"
            /\ resp[r].texts = TextsOf(outcome[r].parts)
            /\ Len(resp[r].image_urls) = Len(ImagesOf(outcome[r].parts))
            /\ Len(written[r]) = Len(resp[r].image_urls)
            /\ \A i \in 1..Len(written[r]) :
                  /\ resp[r].image_urls[i] =
                        <<"http://host", "/static/", written[r][i].token, written[r][i].ext>>
                  /\ written[r][i] \in files
                  /\ written[r][i].pixels = <<ImagesOf(outcome[r].parts)[i]>>
            /\ \A i, j \in 1..Len(resp[r].image_urls) :
                  i # j => resp[r].image_urls[i] # resp[r].image_urls[j]

\* C27 witness: an output of a JPEG and a PNG was answered with two URLs.
C27_Witness ==
    \E r \in Reqs :
        /\ Generating(r) /\ pc[r] = "done" /\ resp[r].success
        /\ outcome[r].parts = <<"JPEG", "PNG">>
        /\ Len(resp[r].image_urls) = 2

\* C28: every /generate response with success false has empty texts and
\* image_urls; the files the request wrote before the failure stay stored and
\* no response in flight gives their URL.
C28_FailureHasNoOutput ==
    \A r \in Reqs :
        (Generating(r) /\ pc[r] = "done" /\ resp[r].shape = "generate"
         /\ ~resp[r].success) =>
            /\ resp[r].texts = <<>>
            /\ resp[r].image_urls = <<>>
            /\ \A f \in WrittenBy(r) :
                  /\ f \in files
                  /\ \A q \in Reqs : \A i \in 1..Len(resp[q].image_urls) :
                        resp[q].image_urls[i] # StaticUrl(f)

\* C28 witness: parsing failed on the second part after the image of the
\* first had been written.
C28_Witness ==
    \E r \in Reqs :
        /\ Generating(r) /\ pc[r] = "done" /\ ~resp[r].success
        /\ outcome[r].parts = <<"PNG", "bad">>
        /\ Len(written[r]) = 1

\* C29: an /upload response with success true names the file the request
\* wrote and gives its URL under the base URL; one with success false has
\* neither a filename nor a URL; an upload under a blank filename fails and
\* writes nothing.
C29_UploadResponseShape ==
    \A r \in Reqs :
        (req[r].route = "/upload" /\ pc[r] = "done" /\ req[r].val_err = "none") =>
            /\ resp[r].status = 200 /\ resp[r].shape = "upload"
            /\ resp[r].success =>
                  /\ Len(written[r]) = 1 /\ written[r][1] \in files
                  /\ resp[r].filename = <<written[r][1].token, written[r][1].ext>>
                  /\ resp[r].image_url = <<"http://host", "/static/">> \o resp[r].filename
            /\ ~resp[r].success =>
                  /\ resp[r].filename = <<>> /\ resp[r].image_url = <<>>
                  /\ written[r] = <<>>
            /\ AbsentEncoding(req[r].image) =>
                  /\ ~resp[r].success /\ written[r] = <<>> /\ attempts[r] = 0
                  /\ resp[r].message = <<"No valid image file provided">>

\* C29 witness: an upload under a filename of one space, with bytes that
\* decode, was refused.
C29_Witness ==
    \E r \in Reqs :
        /\ req[r].route = "/upload" /\ pc[r] = "done"
        /\ req[r].image.filename = <<" ">> /\ req[r].image.decodable
        /\ ~resp[r].success

MSG_NO_KEY == <<PFX_REQUEST_FAILED, "500: GOOGLE_API_KEY not set in environment.">>

\* C30: without an API key, a /generate request with a prompt is handed to
\* the processing and ends there: the backend is not called, the attachment
\* is not put into contents, nothing is written, and the response is 200
\* with success false, the prompt and the model of the request and the
\* missing-key message, whatever the attachment is.
C30_NoKeyFailsEarly ==
    \A r \in Reqs :
        (~apiKey /\ Generating(r) /\ ~PromptMissing(r) /\ req[r].val_err # "other"
         /\ req[r].body = "ok" /\ pc[r] # "routed") =>
            /\ pc[r] \in {"process", "done"}
            /\ args[r].prompt # <<>>
            /\ ~MissingBoundary(req[r]) => args[r].prompt = req[r].prompt.text
            /\ calls[r] = <<>> /\ contents[r] = NoContents
            /\ written[r] = <<>> /\ attempts[r] = 0
            /\ pc[r] = "done" =>
                  /\ resp[r].status = 200 /\ ~resp[r].success
                  /\ resp[r].prompt = args[r].prompt
                  /\ resp[r].model = ExpectedModel(r)
                  /\ resp[r].texts = <<>> /\ resp[r].image_urls = <<>>
                  /\ resp[r].message = MSG_NO_KEY

\* C30 witness: without a key, a request whose attachment would not decode
\* was answered with the missing-key message.
C30_Witness ==
    \E r \in Reqs :
        /\ ~apiKey /\ Generating(r) /\ pc[r] = "done"
        /\ NamedFile(req[r].image) /\ ~req[r].image.decodable
        /\ req[r].prompt.text = <<"x">> /\ req[r].model.text = <<"m">>
        /\ resp[r].message = MSG_NO_KEY /\ resp[r].model = <<"m">>

====
